---------------------------- MODULE Spec2Model ----------------------------
(***************************************************************************)
(* Model of the chat gateway of app.py: the POST /chat handler (request    *)
(* validation, header composition, payload construction, provider          *)
(* dispatch) and the response normalizer _extract_content.                 *)
(*                                                                         *)
(* Text is modelled as a sequence of one-character strings, so that        *)
(* strip(), lower(), capitalize(), split("_") and str() are computed       *)
(* character by character.  A parsed JSON value is a tagged record.        *)
(***************************************************************************)
EXTENDS Integers, Sequences, FiniteSets, TLC

(***************************************************************************)
(* Bounds of the model.                                                    *)
(***************************************************************************)
\* number of top-level fields of an upstream JSON object (normalizer runs)
MaxFields == 2
\* number of entries of the request metadata
MaxMeta == 2

(***************************************************************************)
(* JSON values (Python objects after json parsing).                        *)
(***************************************************************************)
Null == [t |-> "null"]
Str(s) == [t |-> "str", s |-> s]
Num(n) == [t |-> "num", n |-> n]
Bool(b) == [t |-> "bool", b |-> b]
List(items) == [t |-> "list", items |-> items]
\* fields is a sequence of [k |-> key, v |-> value] with distinct keys, in
\* the order the fields were received (a Python dict keeps insertion order)
Obj(fields) == [t |-> "obj", fields |-> fields]
F(k, v) == [k |-> k, v |-> v]

\* an exception raised by a subscript or attribute access
Raised == [t |-> "raised"]
\* a rule of _extract_content that returned nothing and fell through
Pass == [t |-> "pass"]

IsStr(v) == v.t = "str"
IsList(v) == v.t = "list"
IsDict(v) == v.t = "obj"

\* Python truthiness, as used by `or` and `if x:`
Truthy(v) ==
    CASE v.t = "null" -> FALSE
      [] v.t = "str" -> v.s # <<>>
      [] v.t = "num" -> v.n # 0
      [] v.t = "bool" -> v.b
      [] v.t = "list" -> v.items # <<>>
      [] v.t = "obj" -> v.fields # <<>>
      [] OTHER -> FALSE

\* a or b
Or(a, b) == IF Truthy(a) THEN a ELSE b

HasKey(d, k) == IsDict(d) /\ \E i \in 1..Len(d.fields) : d.fields[i].k = k

Lookup(d, k) == d.fields[CHOOSE i \in 1..Len(d.fields) : d.fields[i].k = k].v

\* d[k] with a string key: KeyError when absent, TypeError on a non-dict
Sub(d, k) ==
    IF d.t = "raised" THEN Raised
    ELSE IF HasKey(d, k) THEN Lookup(d, k) ELSE Raised

\* x[0]: first item of a list, first character of a string, otherwise
\* IndexError / KeyError / TypeError
Sub0(x) ==
    IF x.t = "list" /\ x.items # <<>> THEN x.items[1]
    ELSE IF x.t = "str" /\ x.s # <<>> THEN Str(<<x.s[1]>>)
    ELSE Raised

\* d.get(k) on a dict: None when absent
Get(d, k) == IF HasKey(d, k) THEN Lookup(d, k) ELSE Null

(***************************************************************************)
(* _extract_content: one operator per try-block / if-block of the          *)
(* function.  Each yields the returned value, or Pass when control falls   *)
(* through to the next block.  A returned None is Null.                    *)
(***************************************************************************)
\* resp_json["choices"][0]["message"]["content"], any exception -> pass
RuleChatCompletions(resp_json) ==
    LET r == Sub(Sub(Sub0(Sub(resp_json, "choices")), "message"), "content")
    IN  IF r = Raised THEN Pass ELSE r

\* resp_json["choices"][0]["text"], any exception -> pass
RuleLegacyCompletion(resp_json) ==
    LET r == Sub(Sub0(Sub(resp_json, "choices")), "text")
    IN  IF r = Raised THEN Pass ELSE r

\* the output / outputs block; resp_json.get raises on a non-dict
RuleResponses(resp_json) ==
    IF ~IsDict(resp_json) THEN Pass
    ELSE
      LET out == Or(Get(resp_json, "output"), Get(resp_json, "outputs"))
      IN  IF ~(IsList(out) /\ Truthy(out)) THEN Pass
          ELSE
            LET first == out.items[1]
            IN  IF ~IsDict(first) THEN Pass
                ELSE
                  LET c == Or(Or(Get(first, "content"), Get(first, "content_type")),
                              Get(first, "data"))
                      maybe_text ==
                          IF IsList(c) /\ Truthy(c) /\ IsDict(c.items[1])
                          THEN Get(c.items[1], "text")
                          ELSE Null
                  IN  IF Truthy(maybe_text) THEN maybe_text
                      ELSE IF Truthy(Get(first, "text")) THEN Get(first, "text")
                      ELSE Pass

\* "completion" in resp_json
RuleAnthropicCompletion(resp_json) ==
    IF HasKey(resp_json, "completion") THEN Get(resp_json, "completion") ELSE Pass

\* top-level "output" when a string, else top-level "text"
RuleProxyShapes(resp_json) ==
    IF HasKey(resp_json, "output") /\ IsStr(Lookup(resp_json, "output"))
    THEN Lookup(resp_json, "output")
    ELSE IF HasKey(resp_json, "text") THEN Get(resp_json, "text")
    ELSE Pass

\* for v in resp_json.values(): if isinstance(v, str) and len(v) > 0: return v
RECURSIVE ScanValues(_, _)
ScanValues(fields, i) ==
    IF i > Len(fields) THEN Pass
    ELSE IF IsStr(fields[i].v) /\ Len(fields[i].v.s) > 0 THEN fields[i].v
    ELSE ScanValues(fields, i + 1)

\* variant of RuleLastResort: the scan takes the first string, empty or not
RuleLastResortAnyString(resp_json) ==
    IF ~IsDict(resp_json) THEN Pass
    ELSE IF HasKey(resp_json, "message") /\ IsStr(Lookup(resp_json, "message"))
    THEN Lookup(resp_json, "message")
    ELSE IF \E i \in 1..Len(resp_json.fields) : IsStr(resp_json.fields[i].v)
    THEN resp_json.fields[CHOOSE i \in 1..Len(resp_json.fields) :
                            /\ IsStr(resp_json.fields[i].v)
                            /\ \A j \in 1..(i - 1) : ~IsStr(resp_json.fields[j].v)].v
    ELSE Pass

\* top-level "message" when a string, else the scan of the values
RuleLastResort(resp_json) ==
    IF ~IsDict(resp_json) THEN Pass
    ELSE IF HasKey(resp_json, "message") /\ IsStr(Lookup(resp_json, "message"))
    THEN Lookup(resp_json, "message")
    ELSE ScanValues(resp_json.fields, 1)

Rules(resp_json) ==
    << RuleChatCompletions(resp_json), RuleLegacyCompletion(resp_json),
       RuleResponses(resp_json), RuleAnthropicCompletion(resp_json),
       RuleProxyShapes(resp_json), RuleLastResort(resp_json) >>

\* variant of _extract_content: the "completion" block is tried first
extract_content_completion_first(resp_json) ==
    LET rs == << RuleAnthropicCompletion(resp_json), RuleChatCompletions(resp_json),
                 RuleLegacyCompletion(resp_json), RuleResponses(resp_json),
                 RuleProxyShapes(resp_json), RuleLastResort(resp_json) >>
        hit == {i \in 1..6 : rs[i] # Pass}
    IN  IF hit = {} THEN Null
        ELSE rs[CHOOSE i \in hit : \A j \in hit : i <= j]

\* the first block that returns decides; return None at the end
_extract_content(resp_json) ==
    LET rs == Rules(resp_json)
        hit == {i \in 1..6 : rs[i] # Pass}
    IN  IF hit = {} THEN Null
        ELSE rs[CHOOSE i \in hit : \A j \in hit : i <= j]


(***************************************************************************)
(* Text: sequences of one-character strings.                               *)
(***************************************************************************)
Uppers == <<"A", "B", "C", "D", "E", "F", "G", "H", "I", "J", "K", "L", "M",
            "N", "O", "P", "Q", "R", "S", "T", "U", "V", "W", "X", "Y", "Z">>
Lowers == <<"a", "b", "c", "d", "e", "f", "g", "h", "i", "j", "k", "l", "m",
            "n", "o", "p", "q", "r", "s", "t", "u", "v", "w", "x", "y", "z">>

LowerChar(c) ==
    IF \E i \in 1..26 : Uppers[i] = c
    THEN Lowers[CHOOSE i \in 1..26 : Uppers[i] = c]
    ELSE c

UpperChar(c) ==
    IF \E i \in 1..26 : Lowers[i] = c
    THEN Uppers[CHOOSE i \in 1..26 : Lowers[i] = c]
    ELSE c

\* str.lower()
Lower(s) == [i \in 1..Len(s) |-> LowerChar(s[i])]

\* str.capitalize(): first character upper-cased, the rest lower-cased
Capitalize(s) ==
    IF s = <<>> THEN <<>> ELSE <<UpperChar(s[1])>> \o Lower(Tail(s))

Whitespace == {" ", "\n", "\t"}

RECURSIVE LStrip(_)
LStrip(s) ==
    IF s # <<>> /\ s[1] \in Whitespace THEN LStrip(Tail(s)) ELSE s

RECURSIVE RStrip(_)
RStrip(s) ==
    IF s # <<>> /\ s[Len(s)] \in Whitespace
    THEN RStrip(SubSeq(s, 1, Len(s) - 1))
    ELSE s

\* str.strip()
Strip(s) == RStrip(LStrip(s))

\* str.split(sep) for a one-character separator: empty segments are kept
RECURSIVE Split(_, _)
Split(s, sep) ==
    IF \A i \in 1..Len(s) : s[i] # sep THEN <<s>>
    ELSE LET i == CHOOSE i \in 1..Len(s) :
                      s[i] = sep /\ \A j \in 1..(i - 1) : s[j] # sep
         IN  <<SubSeq(s, 1, i - 1)>> \o Split(SubSeq(s, i + 1, Len(s)), sep)

\* sep.join(parts)
RECURSIVE Join(_, _)
Join(parts, sep) ==
    IF parts = <<>> THEN <<>>
    ELSE IF Len(parts) = 1 THEN parts[1]
    ELSE parts[1] \o <<sep>> \o Join(Tail(parts), sep)

Digits == <<"0", "1", "2", "3", "4", "5", "6", "7", "8", "9">>

\* decimal digits of a natural number
RECURSIVE DigitsOf(_)
DigitsOf(n) ==
    IF n < 10 THEN <<Digits[n + 1]>>
    ELSE DigitsOf(n \div 10) \o <<Digits[(n % 10) + 1]>>

\* str(v) of a JSON scalar
PyStr(v) ==
    CASE v.t = "str" -> v.s
      [] v.t = "num" -> DigitsOf(v.n)
      [] v.t = "bool" -> IF v.b THEN <<"T", "r", "u", "e">> ELSE <<"F", "a", "l", "s", "e">>
      [] OTHER -> <<"N", "o", "n", "e">>

\* whether text s contains text sub
Contains(s, sub) ==
    \E i \in 0..(Len(s) - Len(sub)) : SubSeq(s, i + 1, i + Len(sub)) = sub

(***************************************************************************)
(* Module-level configuration of app.py.                                   *)
(***************************************************************************)
SYSTEM_PROMPT ==
    <<"Y", "o", "u", " ", "a", "r", "e", " ", "a", " ", "h", "e", "l", "p", "f", "u", "l", " ", "a", "s", "s", "i", "s", "t", "a", "n", "t", ".">>

\* the key of the process environment; the start-up aborts without it
OPENAI_API_KEY == <<"s", "k", "1">>

\* an environment variable that is not set (os.getenv gives None)
Unset == [t |-> "null"]

\* the environments the process may be started in
Configs ==
    [ ANTHROPIC_API_KEY : {Unset, Str(<<"a", "k", "2">>)},
      AGENTCOST_API_KEY : {Unset, Str(<<"c", "k", "3">>)},
      DEFAULT_PROVIDER : {Unset, Str(<<>>), Str(<<"A", "n", "t", "h", "r", "o", "p", "i", "c">>)},
      OPENAI_SDK_CLIENT : BOOLEAN ]

hAuthorization == <<"A", "u", "t", "h", "o", "r", "i", "z", "a", "t", "i", "o", "n">>
hContentType == <<"C", "o", "n", "t", "e", "n", "t", "-", "T", "y", "p", "e">>
hXApiKeyUpper == <<"X", "-", "A", "P", "I", "-", "K", "e", "y">>
hXApiKeyLower == <<"x", "-", "a", "p", "i", "-", "k", "e", "y">>
vJson == <<"a", "p", "p", "l", "i", "c", "a", "t", "i", "o", "n", "/", "j", "s", "o", "n">>
vBearer == <<"B", "e", "a", "r", "e", "r", " ">>
vRedacted == <<"R", "E", "D", "A", "C", "T", "E", "D">>

\* dict.update: the entries of b win
Update(a, b) ==
    [n \in (DOMAIN a) \cup (DOMAIN b) |-> IF n \in DOMAIN b THEN b[n] ELSE a[n]]

NoHeaders == [n \in {} |-> <<>>]

\* AGENTCOST_HEADERS after start-up: setdefault("X-API-Key", AGENTCOST_API_KEY)
AGENTCOST_HEADERS(cfg) ==
    IF Truthy(cfg.AGENTCOST_API_KEY)
    THEN [n \in {hXApiKeyUpper} |-> cfg.AGENTCOST_API_KEY.s]
    ELSE NoHeaders

(***************************************************************************)
(* The request body of POST /chat.  message is a JSON value (Null when the *)
(* field is absent: data.get("message", "") then gives "").  metadata is a *)
(* JSON object whose keys are texts; the empty object also stands for an   *)
(* absent or null metadata (`data.get("metadata", {}) or {}`).             *)
(***************************************************************************)
kProvider == <<"p", "r", "o", "v", "i", "d", "e", "r">>
kAgentName == <<"a", "g", "e", "n", "t", "_", "n", "a", "m", "e">>
kRetries == <<"r", "e", "t", "r", "i", "e", "s">>
kTemperature == <<"t", "e", "m", "p", "e", "r", "a", "t", "u", "r", "e">>
kMaxTokens == <<"m", "a", "x", "_", "t", "o", "k", "e", "n", "s">>
kAnthropicModel == <<"a", "n", "t", "h", "r", "o", "p", "i", "c", "_", "m", "o", "d", "e", "l">>

\* data.get("message", "").strip(); AttributeError on a non-string
user_message(data) ==
    IF data.message.t = "null" THEN Str(<<>>)
    ELSE IF IsStr(data.message) THEN Str(Strip(data.message.s))
    ELSE Raised

\* temperature 0.7, in tenths
DefaultTemperatureTenths == 7
DefaultMaxTokens == 500

\* variant of Payload: temperature and max_tokens taken from the metadata
PayloadWithOverrides(data) ==
    [ model |-> "gpt-3.5-turbo",
      messages |-> << [role |-> "system", content |-> SYSTEM_PROMPT],
                      [role |-> "user", content |-> user_message(data).s] >>,
      temperature |-> IF HasKey(data.metadata, kTemperature)
                      THEN Lookup(data.metadata, kTemperature)
                      ELSE Num(DefaultTemperatureTenths),
      max_tokens |-> IF HasKey(data.metadata, kMaxTokens)
                     THEN Lookup(data.metadata, kMaxTokens)
                     ELSE Num(DefaultMaxTokens) ]

\* payload, lines 77-85
Payload(data) ==
    [ model |-> "gpt-3.5-turbo",
      messages |-> << [role |-> "system", content |-> SYSTEM_PROMPT],
                      [role |-> "user", content |-> user_message(data).s] >>,
      temperature |-> Num(DefaultTemperatureTenths),
      max_tokens |-> Num(DefaultMaxTokens) ]

\* "X-" + "-".join(part.capitalize() for part in k.split("_"))
HeaderName(k) ==
    LET parts == Split(k, "_")
    IN  <<"X", "-">> \o Join([i \in 1..Len(parts) |-> Capitalize(parts[i])], "-")

\* for k, v in metadata.items(): skip None, headers[header_name] = str(v)
RECURSIVE MergeMetadata(_, _, _)
MergeMetadata(headers, fields, i) ==
    IF i > Len(fields) THEN headers
    ELSE IF fields[i].v.t = "null" THEN MergeMetadata(headers, fields, i + 1)
    ELSE MergeMetadata(
           Update(headers, [n \in {HeaderName(fields[i].k)} |-> PyStr(fields[i].v)]),
           fields, i + 1)

\* headers, lines 87-99
Headers(cfg, metadata) ==
    LET base == [n \in {hAuthorization, hContentType} |->
                   IF n = hAuthorization THEN vBearer \o OPENAI_API_KEY ELSE vJson]
    IN  MergeMetadata(Update(base, AGENTCOST_HEADERS(cfg)), metadata.fields, 1)

\* anthropic_headers, lines 128-134
AnthropicHeaders(cfg, metadata) ==
    LET key == cfg.ANTHROPIC_API_KEY.s
        base == [n \in {hXApiKeyLower, hAuthorization, hContentType} |->
                   IF n = hXApiKeyLower THEN key
                   ELSE IF n = hAuthorization THEN vBearer \o key
                   ELSE vJson]
    IN  Update(base, AGENTCOST_HEADERS(cfg))

\* os.getenv("DEFAULT_PROVIDER", "openai")
GetenvDefaultProvider(cfg) ==
    IF cfg.DEFAULT_PROVIDER.t = "null" THEN Str(<<"o", "p", "e", "n", "a", "i">>)
    ELSE cfg.DEFAULT_PROVIDER

\* line 102: (metadata.get("provider") or getenv(...) or "openai").lower();
\* AttributeError when the chosen value is not a string
Provider(cfg, metadata) ==
    LET chosen == Or(Or(Get(metadata, kProvider), GetenvDefaultProvider(cfg)),
                     Str(<<"o", "p", "e", "n", "a", "i">>))
    IN  IF IsStr(chosen) THEN Str(Lower(chosen.s)) ELSE Raised

\* provider in ("anthropic", "claude")
IsAnthropic(provider) ==
    provider.s \in {<<"a", "n", "t", "h", "r", "o", "p", "i", "c">>, <<"c", "l", "a", "u", "d", "e">>}

\* safe_headers, line 109
SafeHeaders(headers) ==
    [hk \in DOMAIN headers |->
        IF Lower(hk) = Lower(hAuthorization) THEN vRedacted ELSE headers[hk]]

\* anthropic_payload, lines 123 and 136-141
AnthropicPayload(cfg, data) ==
    LET payload == Payload(data)
    IN  [ model |-> Or(Get(data.metadata, kAnthropicModel), Str(<<"c", "l", "a", "u", "d", "e", "-", "2">>)),
          prompt |-> SYSTEM_PROMPT \o <<"\n", "\n", "H", "u", "m", "a", "n", ":", " ">> \o user_message(data).s
                       \o <<"\n", "\n", "A", "s", "s", "i", "s", "t", "a", "n", "t", ":">>,
          max_tokens_to_sample |-> payload.max_tokens,
          temperature |-> payload.temperature ]

\* `metadata or OPENAI_SDK_CLIENT is None`, line 146
UsesHttpPost(cfg, metadata) == Truthy(metadata) \/ ~cfg.OPENAI_SDK_CLIENT

(***************************************************************************)
(* Responses of the gateway: jsonify(...), status.                         *)
(***************************************************************************)
Response(status, error, reply, details, upstatus, body) ==
    [ status |-> status, error |-> error, reply |-> reply, details |-> details,
      upstatus |-> upstatus, body |-> body ]

NoResponse == Response(0, "", Null, <<>>, 0, Null)
ReplyResponse(content) == Response(200, "", content, <<>>, 0, Null)
ErrorResponse(status, error) == Response(status, error, Null, <<>>, 0, Null)
\* an exception no handler of chat() catches: the framework answers 500
Unhandled == ErrorResponse(500, "Internal Server Error")

NoCall == [target |-> "none"]

(***************************************************************************)
(* Inputs: request bodies and upstream responses.                          *)
(***************************************************************************)
Messages ==
    { Null, Str(<<>>), Str(<<" ">>), Str(<<"h", "i">>), Str(<<" ", "h", "i", "\n">>), Num(5) }

MetaKeys ==
    << kProvider, kAgentName, kRetries, kTemperature, kMaxTokens, kAnthropicModel >>

MetaValues(i) ==
    CASE i = 1 -> { Str(<<"C", "l", "a", "u", "d", "e">>), Str(<<"A", "N", "T", "H", "R", "O", "P", "I", "C">>), Str(<<"o", "p", "e", "n", "a", "i">>),
                    Str(<<"m", "i", "s", "t", "r", "a", "l">>), Str(<<>>), Null, Num(5), Bool(TRUE) }
      [] i = 2 -> { Str(<<"b", "o", "t", "1">>), Null }
      [] i = 3 -> { Null, Num(3) }
      [] i = 4 -> { Num(2) }
      [] i = 5 -> { Num(64) }
      [] OTHER -> { Str(<<"c", "l", "a", "u", "d", "e", "-", "3">>) }

RECURSIVE SortedSeq(_)
SortedSeq(S) ==
    IF S = {} THEN <<>>
    ELSE LET m == CHOOSE x \in S : \A y \in S : x <= y
         IN  <<m>> \o SortedSeq(S \ {m})

\* metadata objects with at most MaxMeta entries; the entries are listed in
\* the order of MetaKeys (their header names are distinct, so the order of
\* the entries does not change the merged headers)
Metadatas ==
    UNION { LET order == SortedSeq(S)
            IN  { Obj([j \in 1..Len(order) |-> F(MetaKeys[order[j]], f[order[j]])]) :
                    f \in { g \in [S -> UNION {MetaValues(i) : i \in S}] :
                              \A i \in S : g[i] \in MetaValues(i) } }
          : S \in { T \in SUBSET (1..Len(MetaKeys)) : Cardinality(T) <= MaxMeta } }

Requests == [message : Messages, metadata : Metadatas]

sA == Str(<<"A">>)
sB == Str(<<"B">>)
sT == Str(<<"T">>)
sR == Str(<<"R">>)
sEmpty == Str(<<>>)

Message(content) == Obj(<<F("message", Obj(<<F("content", content)>>))>>)

\* values an upstream may send under each top-level field
FieldChoices ==
    { F("choices", v) : v \in
        { Null, List(<<>>), List(<<Message(sA)>>), List(<<Message(Null)>>),
          List(<<Message(sEmpty)>>), List(<<Obj(<<F("text", sT)>>)>>) } }
    \cup { F("output", v) : v \in
        { Str(<<"O">>), sEmpty,
          List(<<Obj(<<F("content", List(<<Obj(<<F("text", sR)>>)>>))>>)>>),
          List(<<Obj(<<F("content", List(<<Obj(<<F("text", Null)>>)>>)),
                       F("text", Str(<<"R", "2">>))>>)>>),
          List(<<Str(<<"s">>)>>) } }
    \cup { F("outputs", v) : v \in { List(<<Obj(<<F("text", Str(<<"R", "3">>))>>)>>) } }
    \cup { F("completion", v) : v \in { Null, sB, sEmpty, Num(5) } }
    \cup { F("text", v) : v \in { Null, Str(<<"t">>) } }
    \cup { F("message", v) : v \in { Str(<<"M">>), sEmpty, Obj(<<F("content", sA)>>) } }
    \cup { F("id", v) : v \in { Str(<<"x", "1">>), sEmpty } }
    \cup { F("model", v) : v \in { Str(<<"m">>) } }
    \cup { F("note", v) : v \in { Str(<<"h", "i", " ", "t", "h", "e", "r", "e">>) } }

\* JSON objects of exactly n fields with distinct keys, in every order
ObjectsOfLen(n) ==
    { Obj(s) : s \in { q \in [1..n -> FieldChoices] :
                         \A i, j \in 1..n : i # j => q[i].k # q[j].k } }

\* parsed upstream bodies for the normalizer: objects of up to MaxFields
\* fields, and bodies that are no object
Bodies ==
    UNION { ObjectsOfLen(n) : n \in 0..MaxFields }
    \cup { Null, List(<<>>), List(<<sA>>), Str(<<"h", "i">>), Num(5) }

\* upstream bodies for the gateway runs
GatewayBodies ==
    { Obj(<<F("choices", List(<<Message(sA)>>))>>),
      Obj(<<F("choices", List(<<Message(sA)>>)), F("completion", sB)>>),
      Obj(<<F("choices", List(<<Message(Null)>>))>>),
      Obj(<<F("choices", List(<<>>))>>),
      Obj(<<F("choices", List(<<Obj(<<F("text", sT)>>)>>))>>),
      Obj(<<F("completion", sB)>>),
      Obj(<<F("completion", Num(5))>>),
      Obj(<<F("output", Str(<<"O">>))>>),
      Obj(<<F("id", Str(<<"x", "1">>)), F("model", Str(<<"m">>))>>),
      Obj(<<>>) }

Statuses == {200, 503}

\* bodies that do not parse as JSON
Texts == { <<"<", "h", "t", "m", "l", ">">> }

\* str(e) of an exception of the outbound call
ExceptionTexts == { <<"t", "i", "m", "e", "o", "u", "t">> }

(***************************************************************************)
(* State.                                                                  *)
(***************************************************************************)
VARIABLES
    config,     \* the environment read at start-up; never written afterwards
    data,       \* the JSON body of the request being handled
    pc,         \* "idle", "waiting" (outbound call in flight), "done"
    path,       \* the dispatch branch taken: "none", "anthropic",
                \* "openai_http", "openai_sdk"
    calls,      \* outbound calls issued for this request
    outbound,   \* the outbound call: target, endpoint, headers, body
    log,        \* what the handler printed, in order
    upstream,   \* what came back from the outbound call
    result      \* the response returned to the caller

vars == << config, data, pc, path, calls, outbound, log, upstream, result >>

NoData == [message |-> Null, metadata |-> Obj(<<>>)]
NoUpstream == [kind |-> "none"]

\* the debug prints of lines 110-112
RequestLog(cfg, d) ==
    << [line |-> "endpoint", endpoint |-> "AGENTCOST_PROXY_URL/chat/completions"],
       [line |-> "headers", headers |-> SafeHeaders(Headers(cfg, d.metadata))],
       [line |-> "payload", payload |-> Payload(d)] >>

\* the call of line 143
AnthropicCall(cfg, d) ==
    [ target |-> "anthropic", endpoint |-> "ANTHROPIC_BASE_URL/v1/complete",
      headers |-> AnthropicHeaders(cfg, d.metadata), body |-> AnthropicPayload(cfg, d) ]

\* the call of line 147
OpenAIPost(cfg, d) ==
    [ target |-> "openai_http", endpoint |-> "AGENTCOST_PROXY_URL/chat/completions",
      headers |-> Headers(cfg, d.metadata), body |-> Payload(d) ]

\* the call of lines 151-156: the client was built with api_key and
\* default_headers at start-up, lines 49-59
OpenAISdkCall(cfg, d) ==
    [ target |-> "openai_sdk", endpoint |-> "AGENTCOST_PROXY_URL/chat/completions",
      headers |-> Update([n \in {hAuthorization} |-> vBearer \o OPENAI_API_KEY],
                         AGENTCOST_HEADERS(cfg)),
      body |-> Payload(d) ]

Outcome(p, br, n, call, lg, res) ==
    [pc |-> p, path |-> br, calls |-> n, outbound |-> call, log |-> lg, result |-> res]

\* variant of MessageRejected: the message is tested before it is stripped
MessageRejectedUnstripped(d) == d.message.t = "null" \/ d.message = Str(<<>>)

\* `if not user_message`, line 74
MessageRejected(d) == ~Truthy(user_message(d))

\* `if not ANTHROPIC_API_KEY`, line 119
AnthropicKeyMissing(cfg) == ~Truthy(cfg.ANTHROPIC_API_KEY)

\* chat(), lines 71-156: from the request to the outbound call, or to the
\* response when the handler returns or raises before it
ChatUpToCall(cfg, d) ==
    IF user_message(d) = Raised THEN
        Outcome("done", "none", 0, NoCall, <<>>, Unhandled)
    ELSE IF MessageRejected(d) THEN
        Outcome("done", "none", 0, NoCall, <<>>,
                ErrorResponse(400, "No message provided"))
    ELSE IF Provider(cfg, d.metadata) = Raised THEN
        Outcome("done", "none", 0, NoCall, <<>>, Unhandled)
    ELSE IF IsAnthropic(Provider(cfg, d.metadata)) THEN
        IF AnthropicKeyMissing(cfg) THEN
            Outcome("done", "anthropic", 0, NoCall, RequestLog(cfg, d),
                    ErrorResponse(400,
                      "Anthropic provider requested but ANTHROPIC_API_KEY not set"))
        ELSE
            Outcome("waiting", "anthropic", 1, AnthropicCall(cfg, d),
                    RequestLog(cfg, d), NoResponse)
    ELSE IF UsesHttpPost(cfg, d.metadata) THEN
        Outcome("waiting", "openai_http", 1, OpenAIPost(cfg, d),
                RequestLog(cfg, d), NoResponse)
    ELSE
        Outcome("waiting", "openai_sdk", 1, OpenAISdkCall(cfg, d),
                RequestLog(cfg, d), NoResponse)

\* lines 258-263
Normalized(status, j) ==
    LET content == _extract_content(j)
    IN  IF content = Null
        THEN Response(502, "Unexpected response shape", Null, <<>>, status, j)
        ELSE ReplyResponse(content)

\* str(x) of an object that is no string
Repr(x) == [t |-> "repr", of |-> x]

\* getattr(o, name, None) on an object of the SDK
GetAttr(o, name) == IF HasKey(o, name) THEN Lookup(o, name) ELSE Null

\* lines 158-179: content taken from the SDK's return value
SdkContent(sdk_resp, isdict) ==
    IF isdict THEN
        LET r == Sub(Sub(Sub0(Sub(sdk_resp, "choices")), "message"), "content")
        IN  IF r = Raised THEN Null ELSE r
    ELSE
        LET first == GetAttr(sdk_resp, "choices")
        IN  IF ~Truthy(first) THEN Null
            ELSE IF Sub0(first) = Raised THEN Null
            ELSE
              LET first_item == Sub0(first)
                  msg == Or(GetAttr(first_item, "message"), GetAttr(first_item, "text"))
              IN  IF msg = Null THEN Null
                  ELSE IF HasKey(msg, "content") THEN Lookup(msg, "content")
                  ELSE IF IsStr(msg) THEN msg
                  ELSE Repr(msg)

\* lines 181-184
SdkResult(sdk_resp, isdict) ==
    IF SdkContent(sdk_resp, isdict) # Null
    THEN ReplyResponse(SdkContent(sdk_resp, isdict))
    ELSE ReplyResponse(Repr(sdk_resp))

(***************************************************************************)
(* Actions.                                                                *)
(***************************************************************************)
Init ==
    /\ config \in Configs
    /\ data = NoData
    /\ pc = "idle"
    /\ path = "none"
    /\ calls = 0
    /\ outbound = NoCall
    /\ log = <<>>
    /\ upstream = NoUpstream
    /\ result = NoResponse

\* POST /chat arrives and is handled up to the outbound call
Chat ==
    /\ pc = "idle"
    /\ \E d \in Requests :
         LET o == ChatUpToCall(config, d)
         IN  /\ data' = d
             /\ pc' = o.pc
             /\ path' = o.path
             /\ calls' = calls + o.calls
             /\ outbound' = o.outbound
             /\ log' = o.log
             /\ result' = o.result
    /\ UNCHANGED << config, upstream >>

\* the outbound call raises (transport error, timeout): lines 185-187
RequestException ==
    /\ pc = "waiting"
    /\ \E e \in ExceptionTexts :
         /\ upstream' = [kind |-> "exception", text |-> e]
         /\ log' = Append(log, [line |-> "request exception", text |-> e])
         /\ result' = Response(500, "Request exception", Null, e, 0, Null)
    /\ pc' = "done"
    /\ UNCHANGED << config, data, path, calls, outbound >>

\* requests.post returns a body that is not JSON: lines 189-201
UpstreamNotJSON ==
    /\ pc = "waiting"
    /\ path \in {"anthropic", "openai_http"}
    /\ \E st \in Statuses, txt \in Texts :
         /\ upstream' = [kind |-> "text", status |-> st, text |-> txt]
         /\ log' = log \o << [line |-> "response status", status |-> st],
                             [line |-> "response body", text |-> txt] >>
         /\ result' = Response(502, "Upstream did not return JSON", Null, txt, st, Null)
    /\ pc' = "done"
    /\ UNCHANGED << config, data, path, calls, outbound >>

\* requests.post returns a JSON body j with status st: lines 189-263
UpstreamJSON(st, j) ==
    /\ pc = "waiting"
    /\ path \in {"anthropic", "openai_http"}
    /\ upstream' = [kind |-> "json", status |-> st, body |-> j]
    /\ log' = log \o << [line |-> "response status", status |-> st],
                        [line |-> "response body", body |-> j] >>
    /\ result' = Normalized(st, j)
    /\ pc' = "done"
    /\ UNCHANGED << config, data, path, calls, outbound >>

GatewayJSON == \E st \in Statuses, j \in GatewayBodies : UpstreamJSON(st, j)

\* the SDK client returns: lines 157-184
SdkReturns ==
    /\ pc = "waiting"
    /\ path = "openai_sdk"
    /\ \E j \in GatewayBodies, isdict \in BOOLEAN :
         /\ upstream' = [kind |-> IF isdict THEN "sdk_dict" ELSE "sdk_object",
                         status |-> 200, body |-> j]
         /\ result' = SdkResult(j, isdict)
    /\ pc' = "done"
    /\ UNCHANGED << config, data, path, calls, outbound, log >>

Next ==
    \/ Chat
    \/ RequestException
    \/ UpstreamNotJSON
    \/ GatewayJSON
    \/ SdkReturns

Spec == Init /\ [][Next]_vars

(***************************************************************************)
(* The normalizer on its own: a request {"message": "hi"} has been sent by *)
(* requests.post (no SDK client), and the upstream answers with any body   *)
(* of Bodies.                                                              *)
(***************************************************************************)
NormalizerConfig ==
    [ ANTHROPIC_API_KEY |-> Unset, AGENTCOST_API_KEY |-> Unset,
      DEFAULT_PROVIDER |-> Unset, OPENAI_SDK_CLIENT |-> FALSE ]

NormalizerData == [message |-> Str(<<"h", "i">>), metadata |-> Obj(<<>>)]

InitNormalizer ==
    LET o == ChatUpToCall(NormalizerConfig, NormalizerData)
    IN  /\ config = NormalizerConfig
        /\ data = NormalizerData
        /\ pc = o.pc
        /\ path = o.path
        /\ calls = o.calls
        /\ outbound = o.outbound
        /\ log = o.log
        /\ upstream = NoUpstream
        /\ result = o.result

NormalizerJSON == \E st \in Statuses, j \in Bodies : UpstreamJSON(st, j)

NextNormalizer == NormalizerJSON

SpecNormalizer == InitNormalizer /\ [][NextNormalizer]_vars

(***************************************************************************)
(* Properties.                                                             *)
(***************************************************************************)
NonEmptyStr(v) == v.t = "str" /\ v.s # <<>>

\* a JSON body was parsed and normalized by lines 197-263
NormalizedDone == pc = "done" /\ upstream.kind = "json"

\* the least element of a non-empty set of rule numbers
First(S) == CHOOSE i \in S : \A j \in S : i <= j

\* the rules whose field holds a non-empty string
Extracting(j) == {m \in 1..6 : NonEmptyStr(Rules(j)[m])}

UnexpectedShape(st, j) ==
    Response(502, "Unexpected response shape", Null, <<>>, st, j)

\* C1: a rule whose field is present but null does not stop the cascade:
\* when every rule before the first rule that holds a non-empty string is
\* missing or null, and one of them is null, the reply is that string.
CascadeSkipsNullField ==
    NormalizedDone =>
      LET rs == Rules(upstream.body)
          good == Extracting(upstream.body)
      IN  ( /\ good # {}
            /\ \E k \in 1..(First(good) - 1) : rs[k] = Null
            /\ \A k \in 1..(First(good) - 1) : rs[k] \in {Pass, Null} )
          => result = ReplyResponse(rs[First(good)])

\* C2: when no rule holds a non-empty string the gateway answers 502
\* "Unexpected response shape" with the upstream status and body, and a 200
\* reply built from a JSON body is always a non-empty string.
ReplyOnlyFromNonEmptyString ==
    NormalizedDone =>
      /\ Extracting(upstream.body) = {}
           => result = UnexpectedShape(upstream.status, upstream.body)
      /\ result.status = 200 => NonEmptyStr(result.reply)

\* choices[0].message.content of j is a non-empty string
HasChatContent(j) ==
    /\ HasKey(j, "choices")
    /\ IsList(Lookup(j, "choices"))
    /\ Lookup(j, "choices").items # <<>>
    /\ HasKey(Lookup(j, "choices").items[1], "message")
    /\ HasKey(Lookup(Lookup(j, "choices").items[1], "message"), "content")
    /\ NonEmptyStr(Lookup(Lookup(Lookup(j, "choices").items[1], "message"), "content"))

ChatContent(j) == Lookup(Lookup(Lookup(j, "choices").items[1], "message"), "content")

\* C3: when choices[0].message.content is a non-empty string, the reply is
\* exactly that string, whatever other fields the body has.
ChatContentWins ==
    (NormalizedDone /\ HasChatContent(upstream.body))
      => result = ReplyResponse(ChatContent(upstream.body))

\* C3 witness: a body with both the chat content and a completion, answered
\* with the chat content
ChatContentWinsOverCompletion ==
    /\ NormalizedDone
    /\ HasChatContent(upstream.body)
    /\ HasKey(upstream.body, "completion")
    /\ NonEmptyStr(Lookup(upstream.body, "completion"))
    /\ result.reply = ChatContent(upstream.body)
    /\ result.reply # Lookup(upstream.body, "completion")

\* none of the first five blocks of _extract_content returns
NoRule1to5(j) == \A k \in 1..5 : Rules(j)[k] = Pass

MessageIsStr(j) == HasKey(j, "message") /\ IsStr(Lookup(j, "message"))

\* C4 as stated: for an object none of rules 1..5 matches, the reply is the
\* top-level message when it is a string, and otherwise the first
\* string-typed value in the order of the fields.
LastResortFirstString ==
    (NormalizedDone /\ IsDict(upstream.body) /\ NoRule1to5(upstream.body)) =>
      LET fs == upstream.body.fields
      IN  IF MessageIsStr(upstream.body)
          THEN result = ReplyResponse(Lookup(upstream.body, "message"))
          ELSE \A i \in 1..Len(fs) :
                 (IsStr(fs[i].v) /\ \A k \in 1..(i - 1) : ~IsStr(fs[k].v))
                   => result = ReplyResponse(fs[i].v)

\* C4 amended: ... otherwise the first non-empty string-typed value in the
\* order of the fields, and 502 "Unexpected response shape" when there is
\* none.
LastResortFirstNonEmptyString ==
    (NormalizedDone /\ IsDict(upstream.body) /\ NoRule1to5(upstream.body)) =>
      LET fs == upstream.body.fields
      IN  IF MessageIsStr(upstream.body)
          THEN result = ReplyResponse(Lookup(upstream.body, "message"))
          ELSE /\ \A i \in 1..Len(fs) :
                    (NonEmptyStr(fs[i].v) /\ \A k \in 1..(i - 1) : ~NonEmptyStr(fs[k].v))
                      => result = ReplyResponse(fs[i].v)
               /\ (\A i \in 1..Len(fs) : ~NonEmptyStr(fs[i].v))
                    => result = UnexpectedShape(upstream.status, upstream.body)

\* C4 witness: the first string-typed value is empty and a later non-empty
\* string is the reply
LastResortSkipsEmptyString ==
    /\ NormalizedDone
    /\ IsDict(upstream.body)
    /\ NoRule1to5(upstream.body)
    /\ ~MessageIsStr(upstream.body)
    /\ Len(upstream.body.fields) >= 2
    /\ upstream.body.fields[1].v = Str(<<>>)
    /\ NonEmptyStr(upstream.body.fields[2].v)
    /\ result = ReplyResponse(upstream.body.fields[2].v)

\* C5: the SDK path answers what the HTTP path answers for the same
\* upstream response.
SdkHttpParity ==
    (pc = "done" /\ upstream.kind \in {"sdk_object", "sdk_dict"})
      => result = Normalized(upstream.status, upstream.body)

WhitespaceOnly(v) ==
    v.t = "null" \/ (v.t = "str" /\ \A i \in 1..Len(v.s) : v.s[i] \in Whitespace)

\* C6: at most one outbound call per request; none when the request is
\* answered 400, which is the answer to an empty or whitespace-only message
\* and to an Anthropic request without ANTHROPIC_API_KEY.
AtMostOneOutboundCall ==
    /\ calls <= 1
    /\ (calls = 0) = (outbound = NoCall)
    /\ result.status = 400 => calls = 0
    /\ (pc = "done" /\ WhitespaceOnly(data.message))
         => /\ result = ErrorResponse(400, "No message provided")
            /\ calls = 0
    /\ (pc = "done" /\ path = "anthropic" /\ config.ANTHROPIC_API_KEY.t = "null")
         => /\ result = ErrorResponse(400,
                 "Anthropic provider requested but ANTHROPIC_API_KEY not set")
            /\ calls = 0
    /\ (pc = "done" /\ upstream.kind # "none") => calls = 1

\* C6 witness: a whitespace-only message answered 400 without a call
WhitespaceMessageRejected ==
    /\ pc = "done"
    /\ data.message = Str(<<" ">>)
    /\ result.status = 400
    /\ calls = 0

\* s equals name up to the case of its letters
SameIgnoringCase(s, name) ==
    Len(s) = Len(name) /\ \A i \in 1..Len(s) : LowerChar(s[i]) = name[i]

Given(v) == v.t # "null" /\ v # Str(<<>>)

\* the provider value chosen by the stated precedence
ChosenProvider(cfg, metadata) ==
    IF HasKey(metadata, kProvider) /\ Given(Lookup(metadata, kProvider))
    THEN Lookup(metadata, kProvider)
    ELSE IF Given(cfg.DEFAULT_PROVIDER) THEN cfg.DEFAULT_PROVIDER
    ELSE Str(<<"o", "p", "e", "n", "a", "i">>)

ExpectAnthropic(cfg, metadata) ==
    LET v == ChosenProvider(cfg, metadata)
    IN  /\ v.t = "str"
        /\ \/ SameIgnoringCase(v.s, <<"a", "n", "t", "h", "r", "o", "p", "i", "c">>)
           \/ SameIgnoringCase(v.s, <<"c", "l", "a", "u", "d", "e">>)

\* C7: for an accepted message, metadata.provider, else DEFAULT_PROVIDER,
\* else openai decides the path; "anthropic" and "claude" in any case take
\* the Anthropic path and every other value takes the OpenAI path.
ProviderResolution ==
    (pc # "idle" /\ data.message.t = "str" /\ ~WhitespaceOnly(data.message)) =>
      IF ExpectAnthropic(config, data.metadata)
      THEN path = "anthropic"
      ELSE path \in {"openai_http", "openai_sdk"}

\* C8: the headers of the outbound call hold X-<Key> = str(value) for every
\* metadata entry that is not null, and nothing for a null entry.
MetadataHeadersSent ==
    (calls = 1 /\ outbound.target \in {"anthropic", "openai_http", "openai_sdk"}) =>
      \A i \in 1..Len(data.metadata.fields) :
        LET e == data.metadata.fields[i]
        IN  IF e.v.t = "null"
            THEN HeaderName(e.k) \notin DOMAIN outbound.headers
            ELSE /\ HeaderName(e.k) \in DOMAIN outbound.headers
                 /\ outbound.headers[HeaderName(e.k)] = PyStr(e.v)

\* the credentials of the configuration
Credentials(cfg) ==
    {OPENAI_API_KEY}
      \cup {c.s : c \in {k \in {cfg.ANTHROPIC_API_KEY, cfg.AGENTCOST_API_KEY} : k.t = "str"}}

\* C9: no credential appears in a logged header value or in the details
\* returned to the caller.
NoCredentialLogged ==
    \A c \in Credentials(config) :
      /\ \A i \in 1..Len(log) :
           log[i].line = "headers" =>
             \A n \in DOMAIN log[i].headers : ~Contains(log[i].headers[n], c)
      /\ ~Contains(result.details, c)

IsOpenAICall == outbound.target \in {"openai_http", "openai_sdk"}

Trimmed(s, t) ==
    /\ \E a \in 0..Len(s) :
         /\ a + Len(t) <= Len(s)
         /\ SubSeq(s, a + 1, a + Len(t)) = t
         /\ \A i \in (1..a) \cup ((a + Len(t) + 1)..Len(s)) : s[i] \in Whitespace
    /\ t # <<>> => (t[1] \notin Whitespace /\ t[Len(t)] \notin Whitespace)

=============================================================================
